---- MODULE Spec2Model ----
(***************************************************************************)
(* TPU / VFIO device proxy of the sentry (package tpuproxy).               *)
(*                                                                         *)
(*   - tpuFD / pciDeviceFD as memmap.Mappable, and their memmap.File       *)
(*     backings (Translate, MapInternal);                                  *)
(*   - vfioFd, the /dev/vfio/vfio container descriptor: Ioctl and          *)
(*     checkExtension, EventRegister / EventUnregister and Release.        *)
(*                                                                         *)
(* The waiter queue (pkg/waiter), the host readiness notifier              *)
(* (pkg/fdnotifier), the syscall argument words (pkg/sentry/arch) and the  *)
(* host ioctl are collaborators of this code; they are modelled by what    *)
(* the design document says of them.                                       *)
(***************************************************************************)
EXTENDS Integers, Sequences, FiniteSets, TLC

\* ------------------------------------------------------------- bounds
\* Offsets of a mappable range run over 0..MaxAddr.
MaxAddr == 3
\* Host ioctls issued over a run of the container descriptor.
MaxHostCalls == 3
\* Largest "supported" level the host answers to VFIO_CHECK_EXTENSION.
MaxHostRet == 2
\* Guest threads using the container descriptor, one waiter.Entry each.
NumThreads == 2

VARIABLES
    argRequired,     \* the arguments of the calls on a device descriptor / backing:
    argOptional,     \*   two mappable ranges
    argAt,         \*   and the access type
    memOp,        \* the last call on a device descriptor / backing, with its result
    devReleased,  \* per device descriptor variant: has it been released
    lastIoctl,    \* the last vfioFd.Ioctl call, with its result
    hostCalls,    \* number of ioctls issued on vfioFd.hostFd so far
    panicked,     \* the sentry has panicked
    queue,        \* fd.queue: the registered entries, in list order
    subscribed,   \* the notifier holds fd.hostFd (from creation until RemoveFD)
    hostMask,     \* the events the notifier has the host report for fd.hostFd
    closed,       \* fd.hostFd has been closed
    pc,           \* per thread: where it is in EventRegister / EventUnregister
    result,       \* per thread: how its last call returned
    rel,          \* where Release is
    relHup,       \* per entry: hang-ups received from the broadcast of Release
    notified,     \* per entry: it has received a host readiness event
    atRelease,    \* the entries registered, with no call in flight, when Release began
    lateAdded,    \* entries added to the queue between the broadcast and the close
    lateNotified, \* entries notified after their registration had failed
    quiet,        \* per thread: no other call, and no Release, has been in flight
                  \*   since its last EventRegister was called
    snapQueue,    \* per thread, while quiet: the queue at that call
    snapMask      \* per thread, while quiet: hostMask at that call

memVars == <<argRequired, argOptional, argAt, memOp, devReleased>>

ioctlVars == <<lastIoctl, hostCalls>>

waitVars ==
    <<queue, subscribed, hostMask, closed, pc, result, rel, relHup, notified,
      atRelease, lateAdded, lateNotified, snapQueue, snapMask, quiet>>

vars == <<memVars, ioctlVars, panicked, waitVars>>

\* ------------------------------------------------ memory mapping (part_000)
Variants == {"tpuFD", "pciDeviceFD"}

\* memmap.MappableRange / memmap.FileRange: [Start, End).
Ranges == {[Start |-> s, End |-> e] : s \in 0..MaxAddr, e \in 0..MaxAddr}
\* hostarch.AddrRange.WellFormed: Start <= End.
WellFormed == {r \in Ranges : r.Start <= r.End}

\* hostarch.AccessType: any combination of Read, Write, Execute.
AccessTypes == SUBSET {"Read", "Write", "Execute"}

\* &fd.memmapFile: the backing embedded in the descriptor of that variant.
tpuFDMemmapFile == [fd |-> "tpuFD"]

pciDeviceFdMemmapFile == [fd |-> "pciDeviceFD"]

\* A faulty variant: clips the translated window to the required range.
tpuFDTranslateClipped(required, optional, at) ==
    [ts  |-> <<[Source |-> required, File |-> tpuFDMemmapFile,
                Offset |-> required.Start, Perms |-> at]>>,
     err |-> "nil"]

tpuFDTranslate(required, optional, at) ==
    [ts  |-> <<[Source |-> optional, File |-> tpuFDMemmapFile,
                Offset |-> optional.Start, Perms |-> at]>>,
     err |-> "nil"]

pciDeviceFDTranslate(required, optional, at) ==
    [ts  |-> <<[Source |-> optional, File |-> pciDeviceFdMemmapFile,
                Offset |-> optional.Start, Perms |-> at]>>,
     err |-> "nil"]

\* safemem.BlockSeq{} is the empty sequence of blocks.
tpuFDMemmapFileMapInternal(fr, at) ==
    [blocks |-> <<>>, err |-> "EINVAL"]

\* A faulty variant: hands out the requested range for read-only access.
pciDeviceFdMemmapFileMapInternalReadable(fr, at) ==
    IF at = {"Read"}
    THEN [blocks |-> <<fr>>, err |-> "nil"]
    ELSE [blocks |-> <<>>, err |-> "EINVAL"]

pciDeviceFdMemmapFileMapInternal(fr, at) ==
    [blocks |-> <<>>, err |-> "EINVAL"]

NoRange == [Start |-> 0, End |-> 0]

NoMemOp ==
    [op |-> "none", fd |-> "tpuFD", released |-> FALSE,
     ts |-> <<>>, blocks |-> <<>>, err |-> "nil"]

\* fd.Translate(ctx, required, optional, at) on the descriptor of variant v.
Translate(v) ==
    /\ ~panicked
    /\ LET r == IF v = "tpuFD" THEN tpuFDTranslate(argRequired, argOptional, argAt)
                ELSE pciDeviceFDTranslate(argRequired, argOptional, argAt)
       IN memOp' = [op |-> "Translate", fd |-> v, released |-> devReleased[v],
                    ts |-> r.ts, blocks |-> <<>>, err |-> r.err]
    /\ UNCHANGED <<argRequired, argOptional, argAt, devReleased, ioctlVars, panicked, waitVars>>

\* mf.MapInternal(fr, at) on the backing of variant v, with fr the optional range.
MapInternal(v) ==
    /\ ~panicked
    /\ LET r == IF v = "tpuFD" THEN tpuFDMemmapFileMapInternal(argOptional, argAt)
                ELSE pciDeviceFdMemmapFileMapInternal(argOptional, argAt)
       IN memOp' = [op |-> "MapInternal", fd |-> v, released |-> devReleased[v],
                    ts |-> <<>>, blocks |-> r.blocks, err |-> r.err]
    /\ UNCHANGED <<argRequired, argOptional, argAt, devReleased, ioctlVars, panicked, waitVars>>

\* The file-description framework releases a device descriptor once; the
\* backing object lives on with it and can still be asked by the memory manager.
DeviceRelease(v) ==
    /\ ~panicked
    /\ ~devReleased[v]
    /\ devReleased' = [devReleased EXCEPT ![v] = TRUE]
    /\ UNCHANGED <<memOp, argRequired, argOptional, argAt, ioctlVars, panicked, waitVars>>

\* ------------------------------------------------ control dispatch (vfio.go)
\* fd.hostFd: fixed for the lifetime of the descriptor.
hostFd == 7

\* linux.VFIO_CHECK_EXTENSION = _IO(';', 101) and the IOMMU model codes.
VFIO_CHECK_EXTENSION == 15205

VFIO_TYPE1_IOMMU == 1

VFIO_SPAPR_TCE_IOMMU == 2

VFIO_TYPE1v2_IOMMU == 3

\* A 64-bit register word (arch.SyscallArgument): hi is its upper half, lo its low
\* 32 bits in two's complement.
Word(hi, lo) == [hi |-> hi, lo |-> lo]

\* arch.SyscallArgument.Uint: the low 32 bits of the register word, unsigned (the
\* command words drawn below have the sign bit of the low half clear).
SyscallArgumentUint(w) == w.lo

\* arch.SyscallArgument.Int: the low 32 bits, as a signed value.
SyscallArgumentInt(w) == w.lo

\* Register words a guest passes as the command: check-extension, 0xBEEF,
\* VFIO_SET_IOMMU, 0, and 0xBEEF / check-extension with upper bits set ...
CmdWords ==
    {Word(0, VFIO_CHECK_EXTENSION), Word(0, 48879), Word(0, 15206), Word(0, 0),
     Word(1, 48879), Word(1, VFIO_CHECK_EXTENSION)}

\* ... and as the argument: the three codes, 0, 4, 9999 and -1, which are no
\* codes, and code 1 with a bit set above the low 32.
ArgWords ==
    {Word(0, 0), Word(0, 1), Word(0, 2), Word(0, 3), Word(0, 4), Word(0, 9999),
     Word(0, -1), Word(1, 1)}

HostErrnos == {"ENOTTY", "EIO"}

\* What the host answers to one ioctl: a result, or -1 and an errno.
HostAnswers ==
    {[ret |-> r, err |-> "nil"] : r \in 0..MaxHostRet}
        \cup {[ret |-> -1, err |-> e] : e \in HostErrnos}

HostCall(ext) == [fd |-> hostFd, cmd |-> VFIO_CHECK_EXTENSION, arg |-> ext]

\* A faulty variant: no allow-list, every code is forwarded to the host.
checkExtensionForwardAll(ext, ans) ==
    IF ans.err # "nil"
    THEN [sent |-> <<HostCall(ext)>>, ret |-> 0, err |-> ans.err]
    ELSE [sent |-> <<HostCall(ext)>>, ret |-> ans.ret, err |-> "nil"]

\* A faulty variant: a failed host call is issued a second time and its raw result returned.
checkExtensionRetry(ext, ans) ==
    IF ext \in {VFIO_TYPE1_IOMMU, VFIO_SPAPR_TCE_IOMMU, VFIO_TYPE1v2_IOMMU}
    THEN IF ans.err # "nil"
         THEN [sent |-> <<HostCall(ext), HostCall(ext)>>, ret |-> ans.ret, err |-> ans.err]
         ELSE [sent |-> <<HostCall(ext)>>, ret |-> ans.ret, err |-> "nil"]
    ELSE [sent |-> <<>>, ret |-> 0, err |-> "EINVAL"]

\* checkExtension(ext), the host answering ans if it is asked.
checkExtension(ext, ans) ==
    IF ext \in {VFIO_TYPE1_IOMMU, VFIO_SPAPR_TCE_IOMMU, VFIO_TYPE1v2_IOMMU}
    THEN IF ans.err # "nil"
         THEN [sent |-> <<HostCall(ext)>>, ret |-> 0, err |-> ans.err]
         ELSE [sent |-> <<HostCall(ext)>>, ret |-> ans.ret, err |-> "nil"]
    ELSE [sent |-> <<>>, ret |-> 0, err |-> "EINVAL"]

\* A faulty variant: every command is handed to checkExtension.
IoctlDispatchAny(cmd, ext, ans) ==
    checkExtension(ext, ans)

\* The switch of Ioctl on the command, once the task context is known.
IoctlDispatch(cmd, ext, ans) ==
    IF cmd = VFIO_CHECK_EXTENSION
    THEN checkExtension(ext, ans)
    ELSE [sent |-> <<>>, ret |-> 0, err |-> "ENOSYS"]

NoIoctl ==
    [op |-> "none", cmdWord |-> Word(0, 0), argWord |-> Word(0, 0), ans |-> [ret |-> 0, err |-> "nil"],
     before |-> 0, sent |-> <<>>, ret |-> 0, err |-> "nil"]

\* Ioctl(ctx, uio, sysno, args): cmdWord is args[1], argWord is args[2], task says
\* whether ctx carries a task.
Ioctl ==
    /\ ~panicked
    /\ hostCalls < MaxHostCalls
    /\ \E cmdWord \in CmdWords, argWord \in ArgWords, task \in BOOLEAN, ans \in HostAnswers :
          IF ~task
          THEN /\ panicked' = TRUE
               /\ lastIoctl' = [op |-> "panic", cmdWord |-> cmdWord, argWord |-> argWord,
                                ans |-> ans, before |-> hostCalls, sent |-> <<>>,
                                ret |-> 0, err |-> "nil"]
               /\ UNCHANGED hostCalls
          ELSE LET r == IoctlDispatch(SyscallArgumentUint(cmdWord), SyscallArgumentInt(argWord), ans)
               IN /\ lastIoctl' = [op |-> "Ioctl", cmdWord |-> cmdWord, argWord |-> argWord,
                                   ans |-> ans, before |-> hostCalls, sent |-> r.sent,
                                   ret |-> r.ret, err |-> r.err]
                  /\ hostCalls' = hostCalls + Len(r.sent)
                  /\ UNCHANGED panicked
    /\ UNCHANGED <<memVars, waitVars>>

\* ------------------------------------- readiness and release (vfio.go)
Threads == 1..NumThreads

\* waiter.EventIn, waiter.EventOut; a waiter.Entry waits for one of them.
Events == {"EventIn", "EventOut"}

\* The mask of the waiter.Entry of thread t, set when the entry is made: the
\* entries of odd threads wait for input, those of even threads for output.
interest == [t \in Threads |-> IF t % 2 = 1 THEN {"EventIn"} ELSE {"EventOut"}]

InQueue(e) == \E i \in 1..Len(queue) : queue[i] = e

\* waiter.Queue.EventRegister: the entry goes to the back of the list.
QueueEventRegister(q, e) == Append(q, e)

\* waiter.Queue.EventUnregister: the entry leaves the list.
QueueEventUnregister(q, e) == SelectSeq(q, LAMBDA x : x # e)

\* waiter.Queue.Events: the union of the interests of the entries in the list.
QueueEvents(q) == UNION {interest[q[i]] : i \in 1..Len(q)}

\* Thread t is at work on the descriptor: no other thread is quiet any more,
\* and what a thread remembered of the time of its call is dropped with it.
Disturb(t) ==
    /\ quiet' = [u \in Threads |-> IF u = t THEN quiet[u] ELSE FALSE]
    /\ snapQueue' = [u \in Threads |-> IF u = t THEN snapQueue[u] ELSE <<>>]
    /\ snapMask' = [u \in Threads |-> IF u = t THEN snapMask[u] ELSE {}]

\* Release is at work on the descriptor.
DisturbAll ==
    /\ quiet' = [u \in Threads |-> FALSE]
    /\ snapQueue' = [u \in Threads |-> <<>>]
    /\ snapMask' = [u \in Threads |-> {}]

\* A guest thread enters fd.EventRegister(e) with its entry e = t. Callers hold a
\* reference on the descriptor, so no call begins once Release has begun. The
\* thread is quiet if no other call is in flight.
CallEventRegister(t) ==
    /\ ~panicked
    /\ rel = "open"
    /\ pc[t] = "idle"
    /\ result[t] # "registered"
    /\ pc' = [pc EXCEPT ![t] = "register"]
    /\ LET alone == \A u \in Threads \ {t} : pc[u] = "idle"
       IN /\ quiet' = [u \in Threads |-> u = t /\ alone]
          /\ snapQueue' = [u \in Threads |-> IF u = t /\ alone THEN queue ELSE <<>>]
          /\ snapMask' = [u \in Threads |-> IF u = t /\ alone THEN hostMask ELSE {}]
    /\ UNCHANGED <<memVars, ioctlVars, panicked, queue, subscribed, hostMask,
                   closed, result, rel, relHup, notified, atRelease, lateAdded, lateNotified>>

\* fd.queue.EventRegister(e)
EventRegisterAdd(t) ==
    /\ ~panicked
    /\ pc[t] = "register"
    /\ queue' = QueueEventRegister(queue, t)
    /\ pc' = [pc EXCEPT ![t] = "register_update"]
    /\ lateAdded' = IF rel = "notified" THEN lateAdded \cup {t} ELSE lateAdded
    /\ Disturb(t)
    /\ UNCHANGED <<memVars, ioctlVars, panicked, subscribed, hostMask, closed,
                   result, rel, relHup, notified, atRelease, lateNotified>>

\* fdnotifier.UpdateFD(fd.hostFd) in EventRegister: without a subscription there
\* is nothing to update and it returns nil; with one, the host either takes the
\* new mask (return nil) or refuses it (the error sends the call to its rollback).
EventRegisterUpdate(t) ==
    /\ ~panicked
    /\ pc[t] = "register_update"
    /\ \/ /\ hostMask' = IF subscribed THEN QueueEvents(queue) ELSE hostMask
          /\ pc' = [pc EXCEPT ![t] = "idle"]
          /\ result' = [result EXCEPT ![t] = "registered"]
       \/ /\ subscribed
          /\ pc' = [pc EXCEPT ![t] = "register_rollback"]
          /\ UNCHANGED <<hostMask, result>>
    /\ Disturb(t)
    /\ UNCHANGED <<memVars, ioctlVars, panicked, queue, subscribed, closed, rel,
                   relHup, notified, atRelease, lateAdded, lateNotified>>

\* A faulty variant: the error is returned without taking the entry out of the queue.
EventRegisterNoRollback(t) ==
    /\ ~panicked
    /\ pc[t] = "register_rollback"
    /\ pc' = [pc EXCEPT ![t] = "idle"]
    /\ result' = [result EXCEPT ![t] = "failed"]
    /\ Disturb(t)
    /\ UNCHANGED <<memVars, ioctlVars, panicked, queue, subscribed, hostMask,
                   closed, rel, relHup, notified, atRelease, lateAdded, lateNotified>>

\* fd.queue.EventUnregister(e); return err
EventRegisterRollback(t) ==
    /\ ~panicked
    /\ pc[t] = "register_rollback"
    /\ queue' = QueueEventUnregister(queue, t)
    /\ pc' = [pc EXCEPT ![t] = "idle"]
    /\ result' = [result EXCEPT ![t] = "failed"]
    /\ Disturb(t)
    /\ UNCHANGED <<memVars, ioctlVars, panicked, subscribed, hostMask, closed,
                   rel, relHup, notified, atRelease, lateAdded, lateNotified>>

\* A guest thread enters fd.EventUnregister(e) for its registered entry.
CallEventUnregister(t) ==
    /\ ~panicked
    /\ rel = "open"
    /\ pc[t] = "idle"
    /\ result[t] = "registered"
    /\ pc' = [pc EXCEPT ![t] = "unregister"]
    /\ Disturb(t)
    /\ UNCHANGED <<memVars, ioctlVars, panicked, queue, subscribed, hostMask,
                   closed, result, rel, relHup, notified, atRelease, lateAdded, lateNotified>>

\* fd.queue.EventUnregister(e)
EventUnregisterRemove(t) ==
    /\ ~panicked
    /\ pc[t] = "unregister"
    /\ queue' = QueueEventUnregister(queue, t)
    /\ pc' = [pc EXCEPT ![t] = "unregister_update"]
    /\ Disturb(t)
    /\ UNCHANGED <<memVars, ioctlVars, panicked, subscribed, hostMask, closed,
                   result, rel, relHup, notified, atRelease, lateAdded, lateNotified>>

\* fdnotifier.UpdateFD(fd.hostFd) in EventUnregister: an error is a panic.
EventUnregisterUpdate(t) ==
    /\ ~panicked
    /\ pc[t] = "unregister_update"
    /\ \/ /\ hostMask' = IF subscribed THEN QueueEvents(queue) ELSE hostMask
          /\ pc' = [pc EXCEPT ![t] = "idle"]
          /\ result' = [result EXCEPT ![t] = "unregistered"]
          /\ UNCHANGED panicked
       \/ /\ subscribed
          /\ panicked' = TRUE
          /\ UNCHANGED <<hostMask, pc, result>>
    /\ Disturb(t)
    /\ UNCHANGED <<memVars, ioctlVars, queue, subscribed, closed, rel, relHup,
                   notified, atRelease, lateAdded, lateNotified>>

\* The entries whose registration has failed and returned.
Failed == {t \in Threads : pc[t] = "idle" /\ result[t] = "failed"}

\* The notifier reports the host descriptor ready for ev: waiter.Queue.Notify(ev)
\* reaches the entries in the queue that wait for ev.
HostNotify(ev) ==
    /\ ~panicked
    /\ subscribed
    /\ ev \in hostMask
    /\ notified' = [e \in Threads |-> notified[e] \/ (InQueue(e) /\ ev \in interest[e])]
    /\ lateNotified' =
          lateNotified \cup {e \in Failed : InQueue(e) /\ ev \in interest[e]}
    /\ UNCHANGED <<memVars, ioctlVars, panicked, queue, subscribed, hostMask,
                   closed, pc, result, rel, relHup, atRelease, lateAdded, snapQueue,
                   snapMask, quiet>>

\* Release, first statement: fdnotifier.RemoveFD(fd.hostFd). The framework calls
\* Release once.
ReleaseRemoveFD ==
    /\ ~panicked
    /\ rel = "open"
    /\ subscribed' = FALSE
    /\ hostMask' = {}
    /\ rel' = "unsubscribed"
    /\ atRelease' = {t \in Threads : InQueue(t) /\ pc[t] = "idle"}
    /\ DisturbAll
    /\ UNCHANGED <<memVars, ioctlVars, panicked, queue, closed, pc, result,
                   relHup, notified, lateAdded, lateNotified>>

\* A faulty variant: the broadcast is left out.
ReleaseNoNotify ==
    /\ ~panicked
    /\ rel = "unsubscribed"
    /\ rel' = "notified"
    /\ DisturbAll
    /\ UNCHANGED <<memVars, ioctlVars, panicked, queue, subscribed, hostMask,
                   closed, pc, result, relHup, notified, atRelease, lateAdded, lateNotified>>

\* Release, second statement: fd.queue.Notify(waiter.EventHUp), a hang-up to every
\* entry in the queue.
ReleaseNotify ==
    /\ ~panicked
    /\ rel = "unsubscribed"
    /\ relHup' = [e \in Threads |-> IF InQueue(e) THEN relHup[e] + 1 ELSE relHup[e]]
    /\ lateNotified' = lateNotified \cup {e \in Failed : InQueue(e)}
    /\ rel' = "notified"
    /\ DisturbAll
    /\ UNCHANGED <<memVars, ioctlVars, panicked, queue, subscribed, hostMask,
                   closed, pc, result, notified, atRelease, lateAdded>>

\* Release, third statement: unix.Close(int(fd.hostFd)); Release returns.
ReleaseClose ==
    /\ ~panicked
    /\ rel = "notified"
    /\ closed' = TRUE
    /\ rel' = "released"
    /\ DisturbAll
    /\ UNCHANGED <<memVars, ioctlVars, panicked, queue, subscribed, hostMask,
                   pc, result, relHup, notified, atRelease, lateAdded, lateNotified>>

\* ------------------------------------------------------- specifications
InitMem ==
    /\ argRequired = NoRange
    /\ argOptional = NoRange
    /\ argAt = {}
    /\ memOp = NoMemOp
    /\ devReleased = [v \in Variants |-> FALSE]

InitIoctl ==
    /\ lastIoctl = NoIoctl
    /\ hostCalls = 0

\* A container descriptor as created: subscribed to the notifier with an empty
\* queue, nothing asked of the host yet.
InitWait ==
    /\ queue = <<>>
    /\ subscribed = TRUE
    /\ hostMask = {}
    /\ closed = FALSE
    /\ pc = [t \in Threads |-> "idle"]
    /\ result = [t \in Threads |-> "none"]
    /\ rel = "open"
    /\ relHup = [t \in Threads |-> 0]
    /\ notified = [t \in Threads |-> FALSE]
    /\ atRelease = {}
    /\ lateAdded = {}
    /\ lateNotified = {}
    /\ snapQueue = [t \in Threads |-> <<>>]
    /\ snapMask = [t \in Threads |-> {}]
    /\ quiet = [t \in Threads |-> FALSE]

\* The container descriptor with waiting threads.
Init ==
    /\ InitMem
    /\ InitIoctl
    /\ panicked = FALSE
    /\ InitWait

Next ==
    \/ \E t \in Threads :
          \/ CallEventRegister(t)
          \/ EventRegisterAdd(t)
          \/ EventRegisterUpdate(t)
          \/ EventRegisterRollback(t)
          \/ CallEventUnregister(t)
          \/ EventUnregisterRemove(t)
          \/ EventUnregisterUpdate(t)
    \/ \E ev \in Events : HostNotify(ev)
    \/ ReleaseRemoveFD
    \/ ReleaseNotify
    \/ ReleaseClose

Spec == Init /\ [][Next]_vars

\* The memory manager calls with any well-formed ranges and any access type.
InitMmap ==
    /\ argRequired \in WellFormed
    /\ argOptional \in WellFormed
    /\ argAt \in AccessTypes
    /\ memOp = NoMemOp
    /\ devReleased = [v \in Variants |-> FALSE]
    /\ InitIoctl
    /\ panicked = FALSE
    /\ InitWait

NextMmap == \E v \in Variants : Translate(v) \/ MapInternal(v) \/ DeviceRelease(v)

SpecMmap == InitMmap /\ [][NextMmap]_vars

\* Control commands on the container descriptor.
InitDispatch ==
    /\ InitMem
    /\ InitIoctl
    /\ panicked = FALSE
    /\ InitWait

NextIoctl == Ioctl

SpecIoctl == InitDispatch /\ [][NextIoctl]_vars

\* ---------------------------------------------------------- properties
AllowedCodes == {VFIO_TYPE1_IOMMU, VFIO_SPAPR_TCE_IOMMU, VFIO_TYPE1v2_IOMMU}

\* The last dispatch came from a task context with the check-extension command.
CheckExtensionCalled ==
    /\ lastIoctl.op = "Ioctl"
    /\ SyscallArgumentUint(lastIoctl.cmdWord) = VFIO_CHECK_EXTENSION

\* C1: for each of the three allowed extension codes, check-extension issues
\* exactly one host call, VFIO_CHECK_EXTENSION on the host fd of the descriptor
\* with that code, and returns what the host answered; for any other code no
\* host call is made and the result is EINVAL.
C1_CheckExtensionAllowList ==
    CheckExtensionCalled =>
        LET ext == SyscallArgumentInt(lastIoctl.argWord)
        IN IF ext \in AllowedCodes
           THEN /\ lastIoctl.sent = <<[fd |-> hostFd, cmd |-> VFIO_CHECK_EXTENSION, arg |-> ext]>>
                /\ hostCalls = lastIoctl.before + 1
                /\ lastIoctl.err = lastIoctl.ans.err
                /\ lastIoctl.ans.err = "nil" => lastIoctl.ret = lastIoctl.ans.ret
           ELSE /\ lastIoctl.sent = <<>>
                /\ hostCalls = lastIoctl.before
                /\ lastIoctl.err = "EINVAL"
                /\ lastIoctl.ret = 0

\* C1 witness: code 3 was forwarded once and the host's answer 2 came back, after
\* an earlier call had already reached the host.
C1_Witness ==
    /\ CheckExtensionCalled
    /\ SyscallArgumentInt(lastIoctl.argWord) = VFIO_TYPE1v2_IOMMU
    /\ lastIoctl.ans = [ret |-> 2, err |-> "nil"]
    /\ lastIoctl.ret = 2
    /\ lastIoctl.before = 1
    /\ hostCalls = 2

\* C8: a dispatch from a task context with any command other than
\* check-extension returns ENOSYS and makes no host call, whatever the argument.
C8_UnknownCommandNotSupported ==
    (/\ lastIoctl.op = "Ioctl"
     /\ SyscallArgumentUint(lastIoctl.cmdWord) # VFIO_CHECK_EXTENSION)
        => /\ lastIoctl.err = "ENOSYS"
           /\ lastIoctl.ret = 0
           /\ lastIoctl.sent = <<>>
           /\ hostCalls = lastIoctl.before

\* C8 witness: command 0xBEEF with an allowed code as its argument was refused.
C8_Witness ==
    /\ lastIoctl.op = "Ioctl"
    /\ lastIoctl.cmdWord = Word(0, 48879)
    /\ lastIoctl.argWord = Word(0, VFIO_TYPE1_IOMMU)
    /\ lastIoctl.err = "ENOSYS"
    /\ hostCalls = lastIoctl.before

\* C9: when the host call fails for an allowed code, check-extension returns the
\* host's error with result 0; and it asks the host exactly once for an allowed
\* code, whether the host call succeeds or fails.
C9_HostErrorSurfacedOnce ==
    (CheckExtensionCalled /\ SyscallArgumentInt(lastIoctl.argWord) \in AllowedCodes)
        => /\ Len(lastIoctl.sent) = 1
           /\ hostCalls = lastIoctl.before + 1
           /\ lastIoctl.ans.err # "nil"
                => lastIoctl.err = lastIoctl.ans.err /\ lastIoctl.ret = 0

\* C9 witness: the host failed code 2 with EIO, and EIO came back after one call.
C9_Witness ==
    /\ CheckExtensionCalled
    /\ SyscallArgumentInt(lastIoctl.argWord) = VFIO_SPAPR_TCE_IOMMU
    /\ lastIoctl.ans.err = "EIO"
    /\ lastIoctl.err = "EIO"
    /\ lastIoctl.ret = 0
    /\ Len(lastIoctl.sent) = 1

\* C6: MapInternal on the backing of either descriptor variant fails with EINVAL
\* and returns no block, for every range and access type and whether or not the
\* owning descriptor has been released.
C6_MapInternalAlwaysFails ==
    memOp.op = "MapInternal" => memOp.err = "EINVAL" /\ memOp.blocks = <<>>

\* C6 witness: a read of a non-empty range of the PCI backing, its descriptor
\* released, was refused.
C6_Witness ==
    /\ memOp.op = "MapInternal"
    /\ memOp.fd = "pciDeviceFD"
    /\ memOp.released
    /\ argAt = {"Read"}
    /\ argOptional.Start < argOptional.End
    /\ memOp.err = "EINVAL"

\* C7: Translate on either descriptor variant never fails and returns exactly
\* one translation: its source is the optional range, its file the backing of
\* that descriptor, its offset the start of the optional range and its
\* permissions the access type, however required relates to optional.
C7_TranslateCoversOptional ==
    memOp.op = "Translate" =>
        /\ memOp.err = "nil"
        /\ Len(memOp.ts) = 1
        /\ memOp.ts[1].Source = argOptional
        /\ memOp.ts[1].File.fd = memOp.fd
        /\ memOp.ts[1].Offset = argOptional.Start
        /\ memOp.ts[1].Perms = argAt

\* C7 witness: the accelerator descriptor translated with a required range that
\* reaches below the optional one.
C7_Witness ==
    /\ memOp.op = "Translate"
    /\ memOp.fd = "tpuFD"
    /\ argRequired.Start < argOptional.Start
    /\ argOptional.Start < argOptional.End
    /\ argAt = {"Read", "Write"}
    /\ Len(memOp.ts) = 1
    /\ memOp.ts[1].Source = argOptional

\* C2: Release unsubscribes, then broadcasts the hang-up, then closes: the
\* broadcast happens without a host subscription and the close after the
\* broadcast; when Release has returned the host descriptor is closed and every
\* waiter that was registered when Release began (its registration had returned
\* and it was not being unregistered) has received exactly one hang-up.
C2_ReleaseOrder ==
    /\ rel \in {"open", "unsubscribed"} => \A e \in Threads : relHup[e] = 0
    /\ rel \in {"notified", "released"} => ~subscribed
    /\ closed <=> rel = "released"
    /\ rel = "released" => \A e \in atRelease : relHup[e] = 1

\* C2 witness: Release has returned with two waiters registered at its start.
C2_Witness ==
    /\ rel = "released"
    /\ closed
    /\ Cardinality(atRelease) >= 2
    /\ \A e \in atRelease : relHup[e] = 1

\* C10: after a registration whose host update failed, the entry is out of the
\* queue again, the queue is what it was before the call (when no other call
\* overlapped it), and the entry has received no notification since.
C10_FailedRegistrationRolledBack ==
    \A t \in Failed :
        /\ ~InQueue(t)
        /\ quiet[t] => queue = snapQueue[t]
        /\ t \notin lateNotified

\* C10 witness: Release has broadcast its hang-up to a registered waiter while
\* another registration had failed; the failed entry got none.
C10_Witness ==
    \E t \in Failed, u \in Threads :
        /\ rel = "released"
        /\ relHup[u] = 1
        /\ relHup[t] = 0
        /\ ~notified[t]

\* C3: with no call in flight (and Release not begun), the host subscription
\* mask is the union of the interests of the waiters in the queue.
C3_MaskInSyncWhenIdle ==
    (/\ \A t \in Threads : pc[t] = "idle"
     /\ rel = "open"
     /\ ~panicked)
        => hostMask = QueueEvents(queue)

C5_RegisterUnregisterRestores ==
    \A t \in Threads :
        (pc[t] = "idle" /\ result[t] = "unregistered" /\ quiet[t])
            => queue = snapQueue[t] /\ hostMask = snapMask[t]

====
